---- MODULE Spec2Model ----
(***************************************************************************)
(* Model of webpa-common's HTTP boundary:                                  *)
(*   - device.NewDeviceListHandler  (src/device/handlers.go)               *)
(*   - device.MessageHandler        (src/device/handlers.go)               *)
(*   - wrphttp encoders             (src/unnamed/part_000)                 *)
(*   - tracing.NewSpanError         (src/tracing/spanError.go)             *)
(* Each component has its own specification over the shared variables; the *)
(* variables of the other components stay at their idle values.            *)
(***************************************************************************)
EXTENDS Integers, Sequences, FiniteSets, TLC

(***************************************************************************)
(* Bounds and program constants                                            *)
(***************************************************************************)

\* make(chan Interface, 100)
Capacity == 100

\* device counts 0..MaxSmall and Capacity..Capacity+MaxOver are explored
MaxSmall == 2

MaxOver == 2

DeviceCounts == (0 .. MaxSmall) \cup (Capacity .. (Capacity + MaxOver))

VARIABLES
    \* ---- device-listing handler ----
    numDevices,      \* devices the Manager holds; VisitAll visits 1..numDevices in order
    unmarshalable,   \* devices for which json.Marshal returns an error
    lpc,             \* position of the handler goroutine
    visited,         \* visitor calls VisitAll has completed
    devices,         \* the buffered channel's content
    chanClosed,      \* close(devices) has run
    finish,          \* the sync.WaitGroup counter
    cpc,             \* position of the consumer goroutine
    cur,             \* the device the consumer's loop variable d holds (0: none)
    needsDelimiter,  \* the consumer's local
    response,        \* chunks passed to the response writer, in order
    responseHeader,  \* Content-Type of the listing response
    flushed,         \* number of chunks covered by the last Flush
    writeFailed      \* some write to the response returned an error

listVars == <<numDevices, unmarshalable, lpc, visited, devices, chanClosed, finish,
              cpc, cur, needsDelimiter, response, responseHeader, flushed, writeFailed>>

VARIABLES
    \* ---- MessageHandler ----
    mh,              \* the handler's configuration (the fields of MessageHandler)
    body,            \* the inbound HTTP request's body
    mpc,             \* position in ServeHTTP
    ctx,             \* the context ServeHTTP works under
    cancel,          \* "nil", "set" (a cancel function is deferred) or "called"
    message,         \* the decoded message
    contents,        \* the bytes handed to the device request
    readErr,         \* ioutil.ReadAll returned an error
    deviceRequest,   \* the request built by NewRequest
    routeCalls,      \* calls of Router.Route made so far
    routeErr,        \* the error Router.Route returned
    deviceResponse,  \* the response Router.Route returned
    failure,         \* the step that failed ("none" while none has)
    httpStatus,      \* status of the HTTP response (0: no header written yet)
    httpHeader,      \* Content-Type of the HTTP response ("" while unset)
    httpBody,        \* body bytes of the success response written so far
    errorWrites,     \* the httperror.Formatf calls made, in order
    log,             \* what was passed to logger.Error, in order
    deadlinePassed,  \* the deadline of ctx has elapsed
    lateWrites,      \* writes to the HTTP response made after the deadline elapsed
    deviceEncoderCalls  \* calls of DeviceEncoders.EncodeBytes made so far

msgVars == <<mh, body, mpc, ctx, cancel, message, contents, readErr, deviceRequest,
             routeCalls, routeErr, deviceResponse, failure, httpStatus, httpHeader,
             httpBody, errorWrites, log, deadlinePassed, lateWrites, deviceEncoderCalls>>

VARIABLES
    \* ---- wrphttp request encoders ----
    epc,             \* "ready" before the encode function runs, "done" after
    encFunc,         \* the encode function that ran
    format,          \* the wrp.Format the encode function was built for
    entity,          \* the value to encode: Message, Format and Contents
    custom,          \* the custom headers, as (name, values) pairs in iteration order
    httpRequest,     \* the outbound HTTP request: Header, Body, ContentLength
    encoderFails,    \* whether the wrp encoder fails on this message
    encoderCalls,    \* calls of the wrp encoder made so far
    encodeErr        \* the error the encode function returned

encVars == <<epc, encFunc, format, entity, custom, httpRequest, encoderFails,
             encoderCalls, encodeErr>>

VARIABLES
    \* ---- wrphttp response encoders ----
    rpc,             \* the statement the encode function is at
    respFunc,        \* the encode function that runs
    respFormat,      \* the wrp.Format ServerEncodeResponseBody was built for
    timeLayout,      \* the time layout the encode function was built for
    wrpResponse,     \* the wrpendpoint.Response to encode: Message and Spans
    httpResponse,    \* the http.ResponseWriter: Header, the header as sent, Body
    respEncoderFails, \* whether wrpResponse.Encode fails
    respErr          \* the error the encode function returned

respVars == <<rpc, respFunc, respFormat, timeLayout, wrpResponse, httpResponse,
              respEncoderFails, respErr>>

VARIABLES
    \* ---- tracing.SpanError ----
    spc,             \* "ready" before NewSpanError runs, "done" after
    err,             \* the error passed to NewSpanError
    spans,           \* the spans passed to NewSpanError
    spanError        \* the value NewSpanError returned

spanVars == <<spc, err, spans, spanError>>

vars == <<listVars, msgVars, encVars, respVars, spanVars>>

outsideList == <<msgVars, encVars, respVars, spanVars>>

outsideMsg == <<listVars, encVars, respVars, spanVars>>

outsideEnc == <<listVars, msgVars, respVars, spanVars>>

outsideResp == <<listVars, msgVars, encVars, spanVars>>

outsideSpan == <<listVars, msgVars, encVars, respVars>>

(***************************************************************************)
(* Device-listing handler                                                  *)
(***************************************************************************)

Chunk(k, d) == [kind |-> k, dev |-> d]

\* `{"device": [`
OpeningToken == Chunk("open", 0)

\* `]}`
ClosingToken == Chunk("close", 0)

Delimiter == Chunk("comma", 0)

\* what the consumer writes for device d: its JSON, or the quoted marshal-error message
Entry(d) == IF d \in unmarshalable THEN Chunk("errmsg", d) ELSE Chunk("json", d)

ListInit ==
    /\ numDevices \in DeviceCounts
    /\ unmarshalable \in {{}, {2}}
    /\ lpc = "start"
    /\ visited = 0
    /\ devices = <<>>
    /\ chanClosed = FALSE
    /\ finish = 0
    /\ cpc = "none"
    /\ cur = 0
    /\ needsDelimiter = FALSE
    /\ response = <<>>
    /\ responseHeader = ""
    /\ flushed = 0
    /\ writeFailed = FALSE

\* lines 173-178: set Content-Type, write the opening token, return on a write error
WriteOpening ==
    /\ lpc = "start"
    /\ \E ok \in BOOLEAN :
          /\ responseHeader' = "application/json"
          /\ response' = Append(response, OpeningToken)
          /\ writeFailed' = (writeFailed \/ ~ok)
          /\ lpc' = IF ok THEN "spawn" ELSE "returned"
    /\ UNCHANGED <<numDevices, unmarshalable, visited, devices, chanClosed, finish,
                   cpc, cur, needsDelimiter, flushed>>
    /\ UNCHANGED outsideList

\* lines 180-186: make the channel, finish.Add(1), start the consumer goroutine
SpawnConsumer ==
    /\ lpc = "spawn"
    /\ devices' = <<>>
    /\ finish' = finish + 1
    /\ cpc' = "recv"
    /\ needsDelimiter' = FALSE
    /\ lpc' = "visit"
    /\ UNCHANGED <<numDevices, unmarshalable, visited, chanClosed, cur, response,
                   responseHeader, flushed, writeFailed>>
    /\ UNCHANGED outsideList

\* faulty variant: the send also proceeds when the buffer already holds Capacity devices
CanSendOverfull == Len(devices) <= Capacity

\* faulty variant: a channel made one slot smaller
CanSendSmaller == Len(devices) < Capacity - 1

\* the channel send blocks while the buffer holds Capacity devices
CanSend == Len(devices) < Capacity

\* lines 208-210: VisitAll calls the visitor for the next device: devices <- d
ProducerSend ==
    /\ lpc = "visit"
    /\ visited < numDevices
    /\ CanSend
    /\ devices' = Append(devices, visited + 1)
    /\ visited' = visited + 1
    /\ UNCHANGED <<numDevices, unmarshalable, lpc, chanClosed, finish, cpc, cur,
                   needsDelimiter, response, responseHeader, flushed, writeFailed>>
    /\ UNCHANGED outsideList

\* line 210: VisitAll returns after the last visitor call
VisitAllReturn ==
    /\ lpc = "visit"
    /\ visited = numDevices
    /\ lpc' = "close"
    /\ UNCHANGED <<numDevices, unmarshalable, visited, devices, chanClosed, finish,
                   cpc, cur, needsDelimiter, response, responseHeader, flushed, writeFailed>>
    /\ UNCHANGED outsideList

\* line 212: close(devices)
CloseDevices ==
    /\ lpc = "close"
    /\ chanClosed' = TRUE
    /\ lpc' = "wait"
    /\ UNCHANGED <<numDevices, unmarshalable, visited, devices, finish, cpc, cur,
                   needsDelimiter, response, responseHeader, flushed, writeFailed>>
    /\ UNCHANGED outsideList

\* faulty variant: the handler does not wait for the consumer
WaitReturnsAtOnce == TRUE

\* finish.Wait() returns when the counter is zero
WaitReturns == finish = 0

\* line 213: finish.Wait()
FinishWait ==
    /\ lpc = "wait"
    /\ WaitReturns
    /\ lpc' = "closing"
    /\ UNCHANGED <<numDevices, unmarshalable, visited, devices, chanClosed, finish,
                   cpc, cur, needsDelimiter, response, responseHeader, flushed, writeFailed>>
    /\ UNCHANGED outsideList

\* line 214: write the closing token (the write's error is discarded)
WriteClosing ==
    /\ lpc = "closing"
    /\ \E ok \in BOOLEAN :
          /\ response' = Append(response, ClosingToken)
          /\ writeFailed' = (writeFailed \/ ~ok)
    /\ lpc' = "flush"
    /\ UNCHANGED <<numDevices, unmarshalable, visited, devices, chanClosed, finish,
                   cpc, cur, needsDelimiter, responseHeader, flushed>>
    /\ UNCHANGED outsideList

\* line 215: the final Flush; the handler returns
FinalFlush ==
    /\ lpc = "flush"
    /\ flushed' = Len(response)
    /\ lpc' = "done"
    /\ UNCHANGED <<numDevices, unmarshalable, visited, devices, chanClosed, finish,
                   cpc, cur, needsDelimiter, response, responseHeader, writeFailed>>
    /\ UNCHANGED outsideList

\* line 190: range receives the next device from the channel
ConsumerRecv ==
    /\ cpc = "recv"
    /\ devices # <<>>
    /\ cur' = Head(devices)
    /\ devices' = Tail(devices)
    /\ cpc' = "write"
    /\ UNCHANGED <<numDevices, unmarshalable, lpc, visited, chanClosed, finish,
                   needsDelimiter, response, responseHeader, flushed, writeFailed>>
    /\ UNCHANGED outsideList

\* faulty variant: the delimiter is written before every entry, the first included
IterationChunksAlwaysDelimited(d, delim) == <<Delimiter, Entry(d)>>

\* the chunks one loop iteration writes for device d (lines 191-202)
IterationChunks(d, delim) == (IF delim THEN <<Delimiter>> ELSE <<>>) \o <<Entry(d)>>

\* faulty variant: a failed write ends the loop, the buffer is left undrained
ConsumerWriteStopsOnError ==
    /\ cpc = "write"
    /\ \E ok \in BOOLEAN :
          /\ response' = response \o IterationChunks(cur, needsDelimiter)
          /\ writeFailed' = (writeFailed \/ ~ok)
          /\ cpc' = IF ok THEN "flush" ELSE "done"
          /\ finish' = IF ok THEN finish ELSE finish - 1
    /\ needsDelimiter' = TRUE
    /\ UNCHANGED <<numDevices, unmarshalable, lpc, visited, devices, chanClosed,
                   cur, responseHeader, flushed>>
    /\ UNCHANGED outsideList

\* lines 191-202: the delimiter when needed, then the entry; write errors are discarded
ConsumerWrite ==
    /\ cpc = "write"
    /\ \E ok \in BOOLEAN :
          /\ response' = response \o IterationChunks(cur, needsDelimiter)
          /\ writeFailed' = (writeFailed \/ ~ok)
    /\ needsDelimiter' = TRUE
    /\ cpc' = "flush"
    /\ UNCHANGED <<numDevices, unmarshalable, lpc, visited, devices, chanClosed, finish,
                   cur, responseHeader, flushed>>
    /\ UNCHANGED outsideList

\* line 204: flusher.Flush()
ConsumerFlush ==
    /\ cpc = "flush"
    /\ flushed' = Len(response)
    /\ cur' = 0
    /\ cpc' = "recv"
    /\ UNCHANGED <<numDevices, unmarshalable, lpc, visited, devices, chanClosed, finish,
                   needsDelimiter, response, responseHeader, writeFailed>>
    /\ UNCHANGED outsideList

\* lines 187, 190, 205: range ends on the closed, drained channel; defer finish.Done()
ConsumerExit ==
    /\ cpc = "recv"
    /\ devices = <<>>
    /\ chanClosed
    /\ finish' = finish - 1
    /\ cpc' = "done"
    /\ UNCHANGED <<numDevices, unmarshalable, lpc, visited, devices, chanClosed, cur,
                   needsDelimiter, response, responseHeader, flushed, writeFailed>>
    /\ UNCHANGED outsideList

ListNext ==
    \/ WriteOpening
    \/ SpawnConsumer
    \/ ProducerSend
    \/ VisitAllReturn
    \/ CloseDevices
    \/ FinishWait
    \/ WriteClosing
    \/ FinalFlush
    \/ ConsumerRecv
    \/ ConsumerWrite
    \/ ConsumerFlush
    \/ ConsumerExit

\* the steps of the goroutine that runs the handler, VisitAll included
HandlerSteps ==
    \/ WriteOpening
    \/ SpawnConsumer
    \/ ProducerSend
    \/ VisitAllReturn
    \/ CloseDevices
    \/ FinishWait
    \/ WriteClosing
    \/ FinalFlush

\* the steps of the consumer goroutine started at line 186
ConsumerSteps ==
    \/ ConsumerRecv
    \/ ConsumerWrite
    \/ ConsumerFlush
    \/ ConsumerExit

(***************************************************************************)
(* WRP messages and their wire encodings (package wrp)                     *)
(***************************************************************************)

Formats == {"JSON", "Msgpack"}

Msg(d, p) == [Destination |-> d, Payload |-> p]

NoMessage == Msg("", "")

Messages == {Msg(d, p) : d \in {"dev-1", "dev-missing"}, p \in {"ping"}}

\* the bytes of message m in format f
EncodeMessage(f, m) ==
    IF f = "JSON" THEN <<"{", m.Destination, m.Payload, "}">>
                  ELSE <<"msgpack", m.Destination, m.Payload>>

\* whether bytes b are a message framed in format f
WellFormed(f, b) ==
    IF f = "JSON" THEN Len(b) = 4 /\ b[1] = "{" /\ b[4] = "}"
                  ELSE Len(b) = 3 /\ b[1] = "msgpack"

DecodeMessage(f, b) == Msg(b[2], b[3])

\* Format.ContentType()
ContentType(f) == IF f = "JSON" THEN "application/json" ELSE "application/msgpack"

(***************************************************************************)
(* MessageHandler.ServeHTTP                                                *)
(***************************************************************************)

Timeouts == {-1, 0, 10}

Handlers ==
    [RequestDecoders : Formats,
     ResponseEncoders : Formats \cup {"nil"},
     DeviceEncoders : Formats \cup {"nil"},
     Timeout : Timeouts]

Bodies == {EncodeMessage(f, m) : f \in Formats, m \in Messages} \cup {<<"garbage">>}

\* request.Context()
RequestContext == [derived |-> FALSE, deadline |-> 0]

NoRequest == [Message |-> NoMessage, Contents |-> <<>>, Context |-> RequestContext]

NilResponse == [isNil |-> TRUE, Error |-> "nil", Contents |-> <<>>, Message |-> NoMessage]

Responses ==
    {[isNil |-> FALSE, Error |-> e, Contents |-> c, Message |-> Msg("dev-1", "pong")] :
        e \in {"nil", "deviceFailure"},
        c \in {<<>>, EncodeMessage("Msgpack", Msg("dev-1", "pong"))}}

RouteErrors == {"ErrorDeviceNotFound", "transportError", "deadlineExceeded"}

\* what Router.Route may return
RouteOutcomes ==
    {[err |-> e, resp |-> NilResponse] : e \in RouteErrors}
        \cup {[err |-> "nil", resp |-> r] : r \in Responses \cup {NilResponse}}

MsgInit ==
    /\ mh \in Handlers
    /\ body \in Bodies
    /\ mpc = "createContext"
    /\ ctx = RequestContext
    /\ cancel = "nil"
    /\ message = NoMessage
    /\ contents = <<>>
    /\ readErr = FALSE
    /\ deviceRequest = NoRequest
    /\ routeCalls = 0
    /\ routeErr = "nil"
    /\ deviceResponse = NilResponse
    /\ failure = "none"
    /\ httpStatus = 0
    /\ httpHeader = ""
    /\ httpBody = <<>>
    /\ errorWrites = <<>>
    /\ log = <<>>
    /\ deadlinePassed = FALSE
    /\ lateWrites = 0
    /\ deviceEncoderCalls = 0

\* httperror.Formatf(response, code, format, arg): a status code and a message
Formatf(code, text, arg) ==
    /\ errorWrites' = Append(errorWrites, [code |-> code, format |-> text, arg |-> arg])
    /\ httpStatus' = IF httpStatus = 0 THEN code ELSE httpStatus
    /\ lateWrites' = IF deadlinePassed THEN lateWrites + 1 ELSE lateWrites

\* response.Write(b): the first write sends the header with status 200
WriteBody(b) ==
    /\ httpBody' = httpBody \o b
    /\ httpStatus' = IF httpStatus = 0 THEN 200 ELSE httpStatus
    /\ lateWrites' = IF deadlinePassed THEN lateWrites + 1 ELSE lateWrites

\* faulty variant: a zero Timeout also builds a deadline context
createContextNonNegative(timeout) ==
    IF timeout >= 0 THEN [ctx |-> [derived |-> TRUE, deadline |-> timeout], cancel |-> "set"]
                    ELSE [ctx |-> RequestContext, cancel |-> "nil"]

\* lines 43-50
createContext(timeout) ==
    IF timeout > 0 THEN [ctx |-> [derived |-> TRUE, deadline |-> timeout], cancel |-> "set"]
                   ELSE [ctx |-> RequestContext, cancel |-> "nil"]

\* lines 68-71: build the context, defer cancel when there is one
CreateContext ==
    /\ mpc = "createContext"
    /\ ctx' = createContext(mh.Timeout).ctx
    /\ cancel' = createContext(mh.Timeout).cancel
    /\ mpc' = "decode"
    /\ UNCHANGED <<mh, body, deadlinePassed, deviceEncoderCalls, message, contents, readErr, deviceRequest, routeCalls,
                   routeErr, deviceResponse, failure, httpStatus, lateWrites, httpHeader, httpBody,
                   errorWrites, log>>
    /\ UNCHANGED outsideMsg

\* faulty variant: the return after the error response is missing
FallThrough(next) == next

\* lines 82, 95, 108: the return after an error response (next: the step that would follow)
FailureExit(next) == "return"

\* lines 52-60, 73-83: read and decode the body; 400 when either fails
DecodeRequest ==
    /\ mpc = "decode"
    /\ \E readOk \in BOOLEAN :
          /\ readErr' = ~readOk
          /\ IF ~readOk
                THEN /\ failure' = "read"
                     /\ Formatf(400, "Could not decode WRP message: %s", "readError")
                     /\ mpc' = FailureExit("encode")
                     /\ UNCHANGED <<message, contents>>
                ELSE IF ~WellFormed(mh.RequestDecoders, body)
                        THEN /\ failure' = "decode"
                             /\ contents' = body
                             /\ Formatf(400, "Could not decode WRP message: %s", "decodeError")
                             /\ mpc' = FailureExit("encode")
                             /\ UNCHANGED message
                        ELSE /\ message' = DecodeMessage(mh.RequestDecoders, body)
                             /\ contents' = body
                             /\ mpc' = "encode"
                             /\ UNCHANGED <<failure, errorWrites, httpStatus, lateWrites>>
    /\ UNCHANGED <<mh, body, deadlinePassed, deviceEncoderCalls, ctx, cancel, deviceRequest, routeCalls, routeErr,
                   deviceResponse, httpHeader, httpBody, log>>
    /\ UNCHANGED outsideMsg

\* faulty variant: the buffer is not truncated, the encoding follows the inbound bytes
AppendedContents(b, f, m) == b \o EncodeMessage(f, m)

\* lines 86-87: contents[:0], then DeviceEncoders.EncodeBytes(&contents, message)
DeviceContents(b, f, m) == EncodeMessage(f, m)

\* lines 85-97: transcode for the device when DeviceEncoders is set; 500 when it fails
EncodeForDevice ==
    /\ mpc = "encode"
    /\ IF mh.DeviceEncoders # "nil"
          THEN /\ deviceEncoderCalls' = deviceEncoderCalls + 1
               /\ \E ok \in BOOLEAN :
                     IF ok
                        THEN /\ contents' = DeviceContents(contents, mh.DeviceEncoders, message)
                             /\ mpc' = "newRequest"
                             /\ UNCHANGED <<failure, errorWrites, httpStatus, lateWrites>>
                        ELSE /\ contents' = <<>>
                             /\ failure' = "encode"
                             /\ Formatf(500, "Could not encode WRP message: %s", "encodeError")
                             /\ mpc' = FailureExit("newRequest")
          ELSE /\ mpc' = "newRequest"
               /\ UNCHANGED <<contents, failure, errorWrites, httpStatus, lateWrites,
                              deviceEncoderCalls>>
    /\ UNCHANGED <<mh, body, deadlinePassed, ctx, cancel, message, readErr, deviceRequest,
                   routeCalls, routeErr, deviceResponse, httpHeader, httpBody, log>>
    /\ UNCHANGED outsideMsg

\* lines 99-109: build the device request; 400 when it fails
BuildRequest ==
    /\ mpc = "newRequest"
    /\ \E ok \in BOOLEAN :
          IF ok
             THEN /\ deviceRequest' = [Message |-> message, Contents |-> contents,
                                       Context |-> ctx]
                  /\ mpc' = "route"
                  /\ UNCHANGED <<failure, errorWrites, httpStatus, lateWrites>>
             ELSE /\ failure' = "newRequest"
                  /\ Formatf(400, "Could not create device request: %s", "requestError")
                  /\ mpc' = FailureExit("route")
                  /\ UNCHANGED deviceRequest
    /\ UNCHANGED <<mh, body, deadlinePassed, deviceEncoderCalls, ctx, cancel, message, contents, readErr, routeCalls,
                   routeErr, deviceResponse, httpHeader, httpBody, log>>
    /\ UNCHANGED outsideMsg

\* line 111: mh.Router.Route(deviceRequest); a deadline error needs a deadline, which
\* has then elapsed while Route waited for the device
Route ==
    /\ mpc = "route"
    /\ \E out \in RouteOutcomes :
          /\ out.err = "deadlineExceeded" => deviceRequest.Context.deadline > 0
          /\ deadlinePassed => out.err # "nil"
          /\ routeErr' = out.err
          /\ deviceResponse' = out.resp
          /\ deadlinePassed' = (deadlinePassed \/ out.err = "deadlineExceeded")
    /\ routeCalls' = routeCalls + 1
    /\ mpc' = "respond"
    /\ UNCHANGED <<mh, body, deviceEncoderCalls, ctx, cancel, message, contents, readErr,
                   deviceRequest, failure, httpStatus, lateWrites, httpHeader, httpBody,
                   errorWrites, log>>
    /\ UNCHANGED outsideMsg

\* lines 45-47: the deadline of the context built by context.WithTimeout elapses
DeadlineElapses ==
    /\ mpc \notin {"idle", "createContext", "done"}
    /\ ctx.deadline > 0
    /\ ~deadlinePassed
    /\ deadlinePassed' = TRUE
    /\ UNCHANGED <<mh, body, deviceEncoderCalls, mpc, ctx, cancel, message, contents, readErr,
                   deviceRequest, routeCalls, routeErr, deviceResponse, failure, httpStatus,
                   lateWrites, httpHeader, httpBody, errorWrites, log>>
    /\ UNCHANGED outsideMsg

\* faulty variant: ErrorDeviceNotFound is not told apart
RouteErrorCodeAlways500(e) == 500

\* faulty variant: the two codes are swapped
RouteErrorCodeSwapped(e) == IF e = "ErrorDeviceNotFound" THEN 500 ELSE 404

\* lines 112-115: the status code for a Route error
RouteErrorCode(e) == IF e = "ErrorDeviceNotFound" THEN 404 ELSE 500

\* line 129: the value formatted into the "Device transaction failed" message
DeviceFailureArg == routeErr

\* lines 111-130: a Route error, or a device response whose Error is set
RespondError ==
    /\ mpc = "respond"
    /\ \/ /\ routeErr # "nil"
          /\ Formatf(RouteErrorCode(routeErr), "Could not process device request: %s",
                     routeErr)
       \/ /\ routeErr = "nil"
          /\ ~deviceResponse.isNil
          /\ deviceResponse.Error # "nil"
          /\ Formatf(500, "Device transaction failed: %s", DeviceFailureArg)
    /\ mpc' = "return"
    /\ UNCHANGED <<mh, body, deadlinePassed, deviceEncoderCalls, ctx, cancel, message, contents, readErr, deviceRequest,
                   routeCalls, routeErr, deviceResponse, failure, httpHeader, httpBody, log>>
    /\ UNCHANGED outsideMsg

\* lines 111, 123, 142: a nil error with a nil response: nothing is written
RespondNothing ==
    /\ mpc = "respond"
    /\ routeErr = "nil"
    /\ deviceResponse.isNil
    /\ mpc' = "return"
    /\ UNCHANGED <<mh, body, deadlinePassed, deviceEncoderCalls, ctx, cancel, message, contents, readErr, deviceRequest,
                   routeCalls, routeErr, deviceResponse, failure, httpStatus, lateWrites, httpHeader,
                   httpBody, errorWrites, log>>
    /\ UNCHANGED outsideMsg

\* faulty variant: the pool's format is ignored
SuccessContentTypeMsgpack == ContentType("Msgpack")

\* lines 132, 137: the Content-Type of the success response
SuccessContentType ==
    IF mh.ResponseEncoders # "nil" THEN ContentType(mh.ResponseEncoders)
                                   ELSE ContentType("Msgpack")

\* lines 131-132, 136-137: response.Header().Set("Content-Type", ...)
SetContentType ==
    /\ mpc = "respond"
    /\ routeErr = "nil"
    /\ ~deviceResponse.isNil
    /\ deviceResponse.Error = "nil"
    /\ httpHeader' = SuccessContentType
    /\ mpc' = "writeBody"
    /\ UNCHANGED <<mh, body, deadlinePassed, deviceEncoderCalls, ctx, cancel, message, contents, readErr, deviceRequest,
                   routeCalls, routeErr, deviceResponse, failure, httpStatus, lateWrites, httpBody,
                   errorWrites, log>>
    /\ UNCHANGED outsideMsg

\* line 138: the bytes written when no ResponseEncoders is set
RawBody(r) == r.Contents

\* faulty variant: the failure is also answered with an HTTP error
LogAndRespond(text, outcome) ==
    /\ log' = IF outcome = "ok" THEN log ELSE Append(log, [text |-> text, arg |-> outcome])
    /\ errorWrites' = IF outcome = "ok" THEN errorWrites
                      ELSE Append(errorWrites, [code |-> 500, format |-> text, arg |-> outcome])

\* lines 133-135, 138-140: a failed encode or write is logged, nothing else
LogFailure(text, outcome) ==
    /\ log' = IF outcome = "ok" THEN log ELSE Append(log, [text |-> text, arg |-> outcome])
    /\ UNCHANGED errorWrites

\* lines 133-135: encode the device response into the HTTP response; log a failure
EncodeResponse ==
    /\ mpc = "writeBody"
    /\ mh.ResponseEncoders # "nil"
    /\ \E outcome \in {"ok", "encodeError", "writeError"} :
          /\ IF outcome = "encodeError"
                THEN UNCHANGED <<httpBody, httpStatus, lateWrites>>
                ELSE WriteBody(EncodeMessage(mh.ResponseEncoders, deviceResponse.Message))
          /\ LogFailure("Error while encoding WRP response: %s", outcome)
    /\ mpc' = "return"
    /\ UNCHANGED <<mh, body, deadlinePassed, deviceEncoderCalls, ctx, cancel, message,
                   contents, readErr, deviceRequest, routeCalls, routeErr, deviceResponse,
                   failure, httpHeader>>
    /\ UNCHANGED outsideMsg

\* lines 138-140: write the device response's contents; log a failure
WriteContents ==
    /\ mpc = "writeBody"
    /\ mh.ResponseEncoders = "nil"
    /\ \E outcome \in {"ok", "writeError"} :
          /\ WriteBody(RawBody(deviceResponse))
          /\ LogFailure("Error while writing response contents: %s", outcome)
    /\ mpc' = "return"
    /\ UNCHANGED <<mh, body, deadlinePassed, deviceEncoderCalls, ctx, cancel, message,
                   contents, readErr, deviceRequest, routeCalls, routeErr, deviceResponse,
                   failure, httpHeader>>
    /\ UNCHANGED outsideMsg

\* lines 69-71, 143: ServeHTTP returns; the deferred cancel runs when there is one
Return ==
    /\ mpc = "return"
    /\ cancel' = IF cancel = "set" THEN "called" ELSE cancel
    /\ mpc' = "done"
    /\ UNCHANGED <<mh, body, deadlinePassed, deviceEncoderCalls, ctx, message, contents, readErr, deviceRequest, routeCalls,
                   routeErr, deviceResponse, failure, httpStatus, lateWrites, httpHeader, httpBody,
                   errorWrites, log>>
    /\ UNCHANGED outsideMsg

MsgNext ==
    \/ CreateContext
    \/ DecodeRequest
    \/ EncodeForDevice
    \/ BuildRequest
    \/ Route
    \/ DeadlineElapses
    \/ RespondError
    \/ RespondNothing
    \/ SetContentType
    \/ EncodeResponse
    \/ WriteContents
    \/ Return

(***************************************************************************)
(* wrphttp: EncodeRequest and ClientEncodeRequestBody                      *)
(***************************************************************************)

DestinationHeader == "X-Webpa-Device-Name"

SpanHeader == "X-Xmidt-Span"

HeaderNames == {"Content-Type", DestinationHeader, "X-Custom", SpanHeader}

\* http.Header's Add and Set canonicalise the name they are given
CanonicalKey(name) ==
    CASE name = "x-webpa-device-name" -> DestinationHeader
      [] name = "x-custom" -> "X-Custom"
      [] name = "content-type" -> "Content-Type"
      [] OTHER -> name

HeaderAdd(h, name, v) == [h EXCEPT ![CanonicalKey(name)] = Append(@, v)]

HeaderSet(h, name, v) == [h EXCEPT ![CanonicalKey(name)] = <<v>>]

NoHeaders == [n \in HeaderNames |-> <<>>]

\* the headers the outbound request may carry before it is encoded
PriorHeaders ==
    {NoHeaders,
     [NoHeaders EXCEPT ![DestinationHeader] = <<"old-1", "old-2">>],
     [NoHeaders EXCEPT !["Content-Type"] = <<"text/plain">>, ![DestinationHeader] = <<"old-1">>]}

Pair(n, vs) == [name |-> n, values |-> vs]

\* the custom headers, in the order the range over the map yields them
CustomHeaders ==
    {<<>>,
     <<Pair("X-Custom", <<"c1">>)>>,
     <<Pair(DestinationHeader, <<"spoofed">>)>>,
     <<Pair("x-webpa-device-name", <<"spoof-1", "spoof-2">>), Pair("X-Custom", <<"c1">>)>>,
     <<Pair(DestinationHeader, <<"spoofed">>), Pair("x-webpa-device-name", <<"spoof-1">>)>>}

Entities ==
    [Message : Messages,
     Format : Formats,
     Contents : {<<>>, <<"stale">>} \cup {EncodeMessage(f, Msg("dev-1", "ping")) : f \in Formats}]

NewHTTPRequest(h) == [Header |-> h, Body |-> <<>>, ContentLength |-> 0]

EncInit ==
    /\ epc = "ready"
    /\ encFunc = "none"
    /\ format \in Formats
    /\ entity \in Entities
    /\ custom \in CustomHeaders
    /\ httpRequest \in {NewHTTPRequest(h) : h \in PriorHeaders}
    /\ encoderFails \in BOOLEAN
    /\ encoderCalls = 0
    /\ encodeErr = "nil"

\* faulty variant: the format is not compared
ReuseContentsAnyFormat(f, e) == Len(e.Contents) > 0

\* line 21: the entity is already in the requested format
ReuseContents(f, e) == f = e.Format /\ Len(e.Contents) > 0

\* faulty variant: Header.Add in place of Header.Set
AddDestination(h, dest) == HeaderAdd(h, DestinationHeader, dest)

\* lines 36 and 61: Header.Set(DestinationHeader, destination)
SetDestination(h, dest) == HeaderSet(h, DestinationHeader, dest)

\* faulty variant: the Content-Type is set before the encoding is attempted
FailedRequestWithContentType(r, f) ==
    [r EXCEPT !.Header = HeaderSet(@, "Content-Type", ContentType(f))]

\* lines 28 and 52: return err, the request is as it was passed in
FailedRequest(r, f) == r

\* lines 23-24, 31-32: the body and its length
WithBody(r, b) == [r EXCEPT !.Body = b, !.ContentLength = Len(b)]

\* lines 17-39: the function EncodeRequest(format) returns, applied to the entity
EncodeRequest ==
    /\ epc = "ready"
    /\ encFunc' = "EncodeRequest"
    /\ IF ReuseContents(format, entity)
          THEN /\ httpRequest' =
                     [WithBody(httpRequest, entity.Contents) EXCEPT !.Header =
                         SetDestination(HeaderSet(@, "Content-Type", ContentType(format)),
                                        entity.Message.Destination)]
               /\ UNCHANGED <<encoderCalls, encodeErr>>
          ELSE /\ encoderCalls' = encoderCalls + 1
               /\ IF encoderFails
                     THEN /\ encodeErr' = "encodeError"
                          /\ httpRequest' = FailedRequest(httpRequest, format)
                     ELSE /\ httpRequest' =
                                [WithBody(httpRequest, EncodeMessage(format, entity.Message))
                                    EXCEPT !.Header =
                                    SetDestination(
                                        HeaderSet(@, "Content-Type", ContentType(format)),
                                        entity.Message.Destination)]
                          /\ UNCHANGED encodeErr
    /\ epc' = "done"
    /\ UNCHANGED <<format, entity, custom, encoderFails>>
    /\ UNCHANGED outsideEnc

\* lines 55-59: every value of every custom header is added
RECURSIVE AddValues(_, _, _)
AddValues(h, name, vs) ==
    IF vs = <<>> THEN h ELSE AddValues(HeaderAdd(h, name, Head(vs)), name, Tail(vs))

RECURSIVE AddCustom(_, _)
AddCustom(h, cs) ==
    IF cs = <<>> THEN h
    ELSE AddCustom(AddValues(h, Head(cs).name, Head(cs).values), Tail(cs))

\* lines 44-67: the function ClientEncodeRequestBody(format, custom) returns
ClientEncodeRequestBody ==
    /\ epc = "ready"
    /\ encFunc' = "ClientEncodeRequestBody"
    /\ encoderCalls' = encoderCalls + 1
    /\ IF encoderFails
          THEN /\ encodeErr' = "encodeError"
               /\ httpRequest' = FailedRequest(httpRequest, format)
          ELSE /\ httpRequest' =
                     [WithBody(httpRequest, EncodeMessage(format, entity.Message))
                         EXCEPT !.Header =
                         HeaderSet(SetDestination(AddCustom(@, custom),
                                                  entity.Message.Destination),
                                   "Content-Type", ContentType(format))]
               /\ UNCHANGED encodeErr
    /\ epc' = "done"
    /\ UNCHANGED <<format, entity, custom, encoderFails>>
    /\ UNCHANGED outsideEnc

(***************************************************************************)
(* wrphttp: ServerEncodeResponseBody and ServerEncodeResponseHeaders       *)
(***************************************************************************)

WrpResponse(m, ss) == [Message |-> m, Spans |-> ss]

NoWrpResponse == WrpResponse(NoMessage, <<>>)

\* the responses to encode: with and without payload, with no, one and two spans
WrpResponses ==
    {WrpResponse(Msg("dev-1", p), ss) :
        p \in {"pong", ""}, ss \in {<<>>, <<"span-1">>, <<"span-1", "span-2">>}}

TimeLayouts == {"RFC3339", "UnixDate"}

\* one header value for a span: the span with its times in the given layout
FormatSpan(span, layout) == <<span, layout>>

\* tracinghttp.HeadersForSpans: one value of the span header is added for each span
RECURSIVE HeadersForSpans(_, _, _)
HeadersForSpans(ss, layout, h) ==
    IF ss = <<>> THEN h
    ELSE HeadersForSpans(Tail(ss), layout, HeaderAdd(h, SpanHeader, FormatSpan(Head(ss), layout)))

\* AddMessageHeaders: one reserved header for each scalar field of the message
AddMessageHeaders(h, m) == HeaderSet(h, DestinationHeader, m.Destination)

\* a ResponseWriter nothing was written to
NewResponseWriter(h) == [Header |-> h, Sent |-> <<>>, Body |-> <<>>]

\* the headers a response may carry before it is encoded
PriorResponseHeaders == {NoHeaders, [NoHeaders EXCEPT !["X-Custom"] = <<"c1">>]}

\* ResponseWriter.Write: the first call sends the header as it is then; a failed
\* write delivers no bytes
ResponseWrite(w, b, ok) ==
    [w EXCEPT !.Sent = IF @ = <<>> THEN <<w.Header>> ELSE @,
              !.Body = IF ok THEN @ \o b ELSE @]

\* WriteMessagePayload: a payload that is not empty is written as the body, verbatim
WriteMessagePayload(w, m, ok) ==
    IF m.Payload = "" THEN w ELSE ResponseWrite(w, <<m.Payload>>, ok)

RespInit ==
    /\ rpc = "ready"
    /\ respFunc = "none"
    /\ respFormat \in Formats
    /\ timeLayout \in TimeLayouts
    /\ wrpResponse \in WrpResponses
    /\ httpResponse \in {NewResponseWriter(h) : h \in PriorResponseHeaders}
    /\ respEncoderFails \in BOOLEAN
    /\ respErr = "nil"

\* faulty variant: the call of HeadersForSpans is missing
SpanHeadersSkipped(w, r, layout) == w

\* lines 105 and 122: HeadersForSpans(wrpResponse.Spans(), timeLayout, httpResponse.Header())
AddSpanHeaders(w, r, layout) == [w EXCEPT !.Header = HeadersForSpans(r.Spans, layout, @)]

\* lines 99-105: ServerEncodeResponseBody is entered, the span headers are added
ServerBodySpans ==
    /\ rpc = "ready"
    /\ respFunc' = "ServerEncodeResponseBody"
    /\ httpResponse' = AddSpanHeaders(httpResponse, wrpResponse, timeLayout)
    /\ rpc' = "encode"
    /\ UNCHANGED <<respFormat, timeLayout, wrpResponse, respEncoderFails, respErr>>
    /\ UNCHANGED outsideResp

\* lines 107-109: wrpResponse.Encode(&output, format), return err on failure
ServerBodyEncode ==
    /\ rpc = "encode"
    /\ IF respEncoderFails
          THEN /\ respErr' = "encodeError"
               /\ rpc' = "done"
          ELSE /\ rpc' = "write"
               /\ UNCHANGED respErr
    /\ UNCHANGED <<respFunc, respFormat, timeLayout, wrpResponse, httpResponse,
                   respEncoderFails>>
    /\ UNCHANGED outsideResp

\* lines 111-113: set Content-Type, output.WriteTo(httpResponse), return its error
ServerBodyWrite ==
    /\ rpc = "write"
    /\ \E ok \in BOOLEAN :
          /\ httpResponse' =
                ResponseWrite([httpResponse EXCEPT !.Header =
                                   HeaderSet(@, "Content-Type", ContentType(respFormat))],
                              EncodeMessage(respFormat, wrpResponse.Message), ok)
          /\ respErr' = IF ok THEN "nil" ELSE "writeError"
    /\ rpc' = "done"
    /\ UNCHANGED <<respFunc, respFormat, timeLayout, wrpResponse, respEncoderFails>>
    /\ UNCHANGED outsideResp

\* lines 120-122: ServerEncodeResponseHeaders is entered, the span headers are added
ServerHeadersSpans ==
    /\ rpc = "ready"
    /\ respFunc' = "ServerEncodeResponseHeaders"
    /\ httpResponse' = AddSpanHeaders(httpResponse, wrpResponse, timeLayout)
    /\ rpc' = "addHeaders"
    /\ UNCHANGED <<respFormat, timeLayout, wrpResponse, respEncoderFails, respErr>>
    /\ UNCHANGED outsideResp

\* line 123: AddMessageHeaders(httpResponse.Header(), wrpResponse.Message())
ServerHeadersMessage ==
    /\ rpc = "addHeaders"
    /\ httpResponse' = [httpResponse EXCEPT !.Header =
                            AddMessageHeaders(@, wrpResponse.Message)]
    /\ rpc' = "payload"
    /\ UNCHANGED <<respFunc, respFormat, timeLayout, wrpResponse, respEncoderFails, respErr>>
    /\ UNCHANGED outsideResp

\* line 124: return WriteMessagePayload(httpResponse.Header(), httpResponse, message)
ServerHeadersPayload ==
    /\ rpc = "payload"
    /\ \E ok \in BOOLEAN :
          /\ httpResponse' = WriteMessagePayload(httpResponse, wrpResponse.Message, ok)
          /\ respErr' = IF ok \/ wrpResponse.Message.Payload = "" THEN "nil" ELSE "writeError"
    /\ rpc' = "done"
    /\ UNCHANGED <<respFunc, respFormat, timeLayout, wrpResponse, respEncoderFails>>
    /\ UNCHANGED outsideResp

EncNext ==
    \/ EncodeRequest
    \/ ClientEncodeRequestBody
    \/ ServerBodySpans
    \/ ServerBodyEncode
    \/ ServerBodyWrite
    \/ ServerHeadersSpans
    \/ ServerHeadersMessage
    \/ ServerHeadersPayload

(***************************************************************************)
(* tracing.SpanError                                                       *)
(***************************************************************************)

\* longest span sequence passed to NewSpanError
MaxSpans == 2

SpanValues == {"span-1", "span-2"}

SpanSeqs == UNION {[1 .. n -> SpanValues] : n \in 0 .. MaxSpans}

\* an error that is no SpanError: an object (id) with the message Error() returns
PlainError(i, m) == [isSpanError |-> FALSE, id |-> i, msg |-> m, err |-> <<>>, spans |-> <<>>]

NilError == PlainError(0, "")

PlainErrors == {PlainError(1, "not found"), PlainError(2, "not found"), PlainError(3, "closed")}

\* faulty variant: the spans are not stored
NewSpanErrorNoSpans(e, s) ==
    [isSpanError |-> TRUE, id |-> 0, msg |-> "", err |-> <<e>>, spans |-> <<>>]

\* lines 16-21
NewSpanError(e, s) == [isSpanError |-> TRUE, id |-> 0, msg |-> "", err |-> <<e>>, spans |-> s]

\* lines 28-30, for a spanError; the message itself for any other error
RECURSIVE Error(_)
Error(v) == IF v.isSpanError THEN Error(v.err[1]) ELSE v.msg

\* lines 32-34
Spans(v) == v.spans

\* lines 36-38
Err(v) == v.err[1]

\* the errors passed to NewSpanError: plain ones, and SpanErrors around them
Errors == PlainErrors \cup {NewSpanError(e, s) : e \in PlainErrors, s \in SpanSeqs}

SpanInit ==
    /\ spc = "ready"
    /\ err \in Errors
    /\ spans \in SpanSeqs
    /\ spanError = NilError

\* a call NewSpanError(err, spans...)
CallNewSpanError ==
    /\ spc = "ready"
    /\ spanError' = NewSpanError(err, spans)
    /\ spc' = "done"
    /\ UNCHANGED <<err, spans>>
    /\ UNCHANGED outsideSpan

SpanNext == CallNewSpanError

(***************************************************************************)
(* Specifications: one component runs, the others stay idle                *)
(***************************************************************************)

ListIdle ==
    /\ numDevices = 0
    /\ unmarshalable = {}
    /\ lpc = "idle"
    /\ visited = 0
    /\ devices = <<>>
    /\ chanClosed = FALSE
    /\ finish = 0
    /\ cpc = "none"
    /\ cur = 0
    /\ needsDelimiter = FALSE
    /\ response = <<>>
    /\ responseHeader = ""
    /\ flushed = 0
    /\ writeFailed = FALSE

MsgIdle ==
    /\ mh = [RequestDecoders |-> "Msgpack", ResponseEncoders |-> "nil",
             DeviceEncoders |-> "nil", Timeout |-> 0]
    /\ body = <<>>
    /\ mpc = "idle"
    /\ ctx = RequestContext
    /\ cancel = "nil"
    /\ message = NoMessage
    /\ contents = <<>>
    /\ readErr = FALSE
    /\ deviceRequest = NoRequest
    /\ routeCalls = 0
    /\ routeErr = "nil"
    /\ deviceResponse = NilResponse
    /\ failure = "none"
    /\ httpStatus = 0
    /\ httpHeader = ""
    /\ httpBody = <<>>
    /\ errorWrites = <<>>
    /\ log = <<>>
    /\ deadlinePassed = FALSE
    /\ lateWrites = 0
    /\ deviceEncoderCalls = 0

EncIdle ==
    /\ epc = "idle"
    /\ encFunc = "none"
    /\ format = "Msgpack"
    /\ entity = [Message |-> NoMessage, Format |-> "Msgpack", Contents |-> <<>>]
    /\ custom = <<>>
    /\ httpRequest = NewHTTPRequest(NoHeaders)
    /\ encoderFails = FALSE
    /\ encoderCalls = 0
    /\ encodeErr = "nil"

RespIdle ==
    /\ rpc = "idle"
    /\ respFunc = "none"
    /\ respFormat = "Msgpack"
    /\ timeLayout = ""
    /\ wrpResponse = NoWrpResponse
    /\ httpResponse = NewResponseWriter(NoHeaders)
    /\ respEncoderFails = FALSE
    /\ respErr = "nil"

SpanIdle ==
    /\ spc = "idle"
    /\ err = NilError
    /\ spans = <<>>
    /\ spanError = NilError

InitList == ListInit /\ MsgIdle /\ EncIdle /\ RespIdle /\ SpanIdle

InitMsg == MsgInit /\ ListIdle /\ EncIdle /\ RespIdle /\ SpanIdle

\* one call of one encode function: of a request encoder or of a response encoder
InitEnc ==
    /\ \/ EncInit /\ RespIdle
       \/ EncIdle /\ RespInit
    /\ ListIdle
    /\ MsgIdle
    /\ SpanIdle

InitSpan == SpanInit /\ ListIdle /\ MsgIdle /\ EncIdle /\ RespIdle

SpecList == InitList /\ [][ListNext]_vars

\* the Go scheduler runs every runnable goroutine: a step of the handler or of the
\* consumer that stays possible is eventually taken
FairSpecList == InitList /\ [][ListNext]_vars /\ WF_vars(HandlerSteps) /\ WF_vars(ConsumerSteps)

SpecMsg == InitMsg /\ [][MsgNext]_vars

SpecEnc == InitEnc /\ [][EncNext]_vars

SpecSpan == InitSpan /\ [][SpanNext]_vars

(***************************************************************************)
(* Device-listing handler: claims C2 - C5                                  *)
(***************************************************************************)

IsEntry(c) == c.kind \in {"json", "errmsg"}

\* the response with every entry reduced to the device it is for
Shape(r) == [i \in 1 .. Len(r) |-> IF IsEntry(r[i]) THEN Chunk("entry", r[i].dev) ELSE r[i]]

\* entries for devices 1..n in visitation order, a comma between neighbours
RECURSIVE EntriesShape(_)
EntriesShape(n) ==
    IF n = 0 THEN <<>>
    ELSE IF n = 1 THEN <<Chunk("entry", 1)>>
    ELSE EntriesShape(n - 1) \o <<Delimiter, Chunk("entry", n)>>

\* the devices of the entries written so far, in order
EntryDevices(r) ==
    LET es == SelectSeq(r, IsEntry) IN [i \in 1 .. Len(es) |-> es[i].dev]

ClosingWritten == \E i \in 1 .. Len(response) : response[i] = ClosingToken

EntriesFlushed == Cardinality({i \in 1 .. flushed : IsEntry(response[i])})

\* C2: when the handler returns after VisitAll visited N devices, the response is the
\* opening token, the N entries in visitation order separated by N-1 commas, and the
\* closing token (also for N above the channel's capacity).
C2_ListingWellFormed ==
    lpc = "done" =>
        /\ visited = numDevices
        /\ Shape(response) = <<OpeningToken>> \o EntriesShape(visited) \o <<ClosingToken>>

C2_Witness ==
    /\ lpc = "done"
    /\ numDevices > Capacity
    /\ Len(response) = 2 * numDevices + 1

\* C3: the closing token is written only after the consumer has taken every pushed
\* device and has written and flushed its entry, and the consumer has finished.
C3_ClosingAfterLastFlush ==
    ClosingWritten =>
        /\ cpc = "done"
        /\ devices = <<>>
        /\ visited = numDevices
        /\ EntryDevices(response) = [i \in 1 .. numDevices |-> i]
        /\ EntriesFlushed = numDevices

C3_Witness ==
    /\ ClosingWritten
    /\ numDevices > Capacity
    /\ lpc = "flush"

\* every device pushed so far is written, held by the consumer, or in the buffer
NoDeviceDropped ==
    EntryDevices(response) \o (IF cpc = "write" THEN <<cur>> ELSE <<>>) \o devices
        = [i \in 1 .. visited |-> i]

\* C4: the buffer never holds more than Capacity devices, a full buffer admits no
\* further send until the consumer takes a device, and no device is dropped.
C4_BoundedBuffer ==
    /\ [](Len(devices) <= Capacity /\ NoDeviceDropped)
    /\ [][Len(devices) >= Capacity => visited' = visited]_vars

C4_Witness ==
    /\ Len(devices) = Capacity
    /\ lpc = "visit"
    /\ visited < numDevices

\* VisitAll is stuck in a visitor call while the consumer serialises or writes
ProducerWaitsOnConsumer ==
    /\ lpc = "visit"
    /\ visited < numDevices
    /\ ~CanSend
    /\ cpc \in {"write", "flush"}

\* C5 as claimed: for every number of devices VisitAll never waits for the
\* consumer's serialisation and response I/O.
C5_NeverWaitsOnConsumer == ~ProducerWaitsOnConsumer

\* C5 as amended: with at most Capacity + 1 devices VisitAll never waits for the
\* consumer's serialisation and response I/O, and it runs to completion while no
\* entry has been written.
C5_NoWaitUpToCapacity == numDevices <= Capacity + 1 => ~ProducerWaitsOnConsumer

C5_Witness ==
    /\ lpc = "close"
    /\ numDevices = Capacity + 1
    /\ EntryDevices(response) = <<>>

\* C14: under fair scheduling of the handler and the consumer, every call of the
\* device-listing handler eventually returns, for any number of devices and also when
\* marshalling or a response write fails.
C14_EventuallyReturns == <>(lpc \in {"done", "returned"})

\* a call with more devices than the buffer holds, one of them unmarshalable, a failed
\* write in the consumer, and the handler returned
C14_Witness ==
    /\ lpc = "done"
    /\ numDevices > Capacity
    /\ unmarshalable # {}
    /\ writeFailed
    /\ cpc = "done"
    /\ devices = <<>>

(***************************************************************************)
(* MessageHandler: claims C1, C9, C10                                      *)
(***************************************************************************)

DeviceReportedFailure ==
    routeCalls = 1 /\ routeErr = "nil" /\ ~deviceResponse.isNil /\ deviceResponse.Error # "nil"

RouteSucceeded ==
    routeCalls = 1 /\ routeErr = "nil" /\ ~deviceResponse.isNil /\ deviceResponse.Error = "nil"

NoSuccessBody == httpBody = <<>> /\ httpHeader = ""

\* C1: the failure decides the status: read/decode 400, device encoding 500, request
\* construction 400, ErrorDeviceNotFound 404, any other Route error 500, a device
\* response with Error set 500; in each case no success body is written.
C1_StatusByFailure ==
    mpc = "done" =>
        /\ failure \in {"read", "decode"} => httpStatus = 400 /\ NoSuccessBody
        /\ failure = "encode" => httpStatus = 500 /\ NoSuccessBody
        /\ failure = "newRequest" => httpStatus = 400 /\ NoSuccessBody
        /\ (routeCalls = 1 /\ routeErr = "ErrorDeviceNotFound") =>
               httpStatus = 404 /\ NoSuccessBody
        /\ (routeCalls = 1 /\ routeErr \notin {"nil", "ErrorDeviceNotFound"}) =>
               httpStatus = 500 /\ NoSuccessBody
        /\ DeviceReportedFailure => httpStatus = 500 /\ NoSuccessBody

C1_Witness ==
    /\ mpc = "done"
    /\ routeErr = "ErrorDeviceNotFound"
    /\ httpStatus = 404

\* C9: a device-reported failure is surfaced: the HTTP response written for it carries
\* the device response's own error.
C9_DeviceErrorSurfaced ==
    (mpc = "done" /\ DeviceReportedFailure) =>
        \E i \in 1 .. Len(errorWrites) : errorWrites[i].arg = deviceResponse.Error

EncodingFailed == \E i \in 1 .. Len(log) : log[i].arg = "encodeError"

\* C10: on a successful route the Content-Type is the ResponseEncoders format's content
\* type and the body the encoded response (when the encoder produced one), or, with no
\* ResponseEncoders, the Msgpack content type and exactly the response's Contents;
\* no body byte is written before Content-Type is set.
C10_SuccessResponse ==
    /\ (mpc = "done" /\ RouteSucceeded) =>
          IF mh.ResponseEncoders # "nil"
             THEN /\ httpHeader = ContentType(mh.ResponseEncoders)
                  /\ ~EncodingFailed =>
                        httpBody = EncodeMessage(mh.ResponseEncoders, deviceResponse.Message)
             ELSE /\ httpHeader = "application/msgpack"
                  /\ httpBody = deviceResponse.Contents
    /\ (httpBody # <<>> \/ httpStatus = 200) => httpHeader # ""

C10_Witness ==
    /\ mpc = "done"
    /\ RouteSucceeded
    /\ mh.ResponseEncoders = "JSON"
    /\ httpHeader = "application/json"
    /\ httpBody = <<"{", "dev-1", "pong", "}">>

\* C11: at most one error response is written in a call, and a failure while encoding
\* or writing the success response, after its Content-Type was set, is only logged:
\* no HTTP error write follows it.
C11_OneErrorWrite ==
    /\ Len(errorWrites) <= 1
    /\ httpHeader # "" => errorWrites = <<>>
    /\ log # <<>> => (errorWrites = <<>> /\ httpHeader # "" /\ Len(log) = 1)

C11_Witness ==
    /\ mpc = "done"
    /\ RouteSucceeded
    /\ log # <<>>
    /\ log[1].arg = "encodeError"
    /\ errorWrites = <<>>

\* C12: Route is called at most once, and only after decoding, the optional device
\* encoding and the request construction succeeded; after a failed step no later step
\* of the pipeline runs.
C12_NoRetry ==
    /\ routeCalls <= 1
    /\ routeCalls = 1 =>
          /\ failure = "none"
          /\ ~readErr
          /\ WellFormed(mh.RequestDecoders, body)
          /\ message = DecodeMessage(mh.RequestDecoders, body)
          /\ deviceRequest.Message = message
          /\ (mh.DeviceEncoders # "nil") => deviceEncoderCalls = 1
    /\ failure # "none" =>
          /\ mpc \in {"return", "done"}
          /\ routeCalls = 0
          /\ deviceRequest = NoRequest
          /\ Len(errorWrites) = 1
          /\ NoSuccessBody
    /\ failure \in {"read", "decode"} => deviceEncoderCalls = 0
    /\ routeErr # "nil" => NoSuccessBody

C12_Witness ==
    /\ mpc = "done"
    /\ failure = "encode"
    /\ routeCalls = 0
    /\ deviceEncoderCalls = 1

TimedOut == mpc = "done" /\ routeErr = "deadlineExceeded"

\* C13 as claimed: when the configured timeout elapses before the device replies, no
\* write to the HTTP response is made after the deadline.
C13_NoWriteAfterDeadline == TimedOut => lateWrites = 0

\* C13 as amended: when the configured timeout elapses before the device replies, the
\* request ends with the timeout-classified Route error, which the handler reports
\* with one error write of status 500, made after the deadline; no success body is
\* written.
C13_TimeoutReported ==
    TimedOut =>
        /\ mh.Timeout > 0
        /\ deadlinePassed
        /\ errorWrites = <<[code |-> 500, format |-> "Could not process device request: %s",
                            arg |-> "deadlineExceeded"]>>
        /\ httpStatus = 500
        /\ NoSuccessBody
        /\ lateWrites = 1

C13_Witness ==
    /\ TimedOut
    /\ mh.Timeout = 10
    /\ lateWrites = 1
    /\ httpStatus = 500

\* C17 as claimed (last clause): the device encoding is performed only if the device's
\* format differs from the inbound format.
C17_ReencodeOnlyIfDifferent ==
    deviceEncoderCalls > 0 => mh.DeviceEncoders # mh.RequestDecoders

\* C17 as amended: the device request holds the inbound body unchanged when no
\* DeviceEncoders is set, and otherwise exactly the decoded message encoded in the
\* device format, the encoding being performed once whenever DeviceEncoders is set.
C17_DeviceBytes ==
    routeCalls = 1 =>
        IF mh.DeviceEncoders = "nil"
           THEN /\ deviceRequest.Contents = body
                /\ deviceEncoderCalls = 0
           ELSE /\ deviceRequest.Contents =
                      EncodeMessage(mh.DeviceEncoders, DecodeMessage(mh.RequestDecoders, body))
                /\ deviceEncoderCalls = 1

C17_Witness ==
    /\ routeCalls = 1
    /\ mh.DeviceEncoders = "JSON"
    /\ mh.RequestDecoders = "JSON"
    /\ deviceEncoderCalls = 1
    /\ deviceRequest.Contents = body

C6_ReuseOrEncode ==
    (epc = "done" /\ encFunc = "EncodeRequest") =>
        IF Len(entity.Contents) > 0 /\ entity.Format = format
           THEN /\ encodeErr = "nil"
                /\ httpRequest.Body = entity.Contents
                /\ httpRequest.ContentLength = Len(entity.Contents)
                /\ encoderCalls = 0
           ELSE /\ encoderCalls = 1
                /\ encodeErr = "nil" =>
                      /\ httpRequest.Body = EncodeMessage(format, entity.Message)
                      /\ httpRequest.ContentLength = Len(EncodeMessage(format, entity.Message))

C6_Witness ==
    /\ epc = "done"
    /\ encFunc = "EncodeRequest"
    /\ entity.Format = format
    /\ entity.Contents = <<"stale">>
    /\ httpRequest.Body = <<"stale">>
    /\ encoderCalls = 0

\* C7: after a successful EncodeRequest or ClientEncodeRequestBody the destination
\* header holds exactly one value, the message's destination, whatever the request's
\* earlier headers and the custom headers were.
C7_OneDestination ==
    (epc = "done" /\ encodeErr = "nil") =>
        httpRequest.Header[DestinationHeader] = <<entity.Message.Destination>>

C7_Witness ==
    /\ epc = "done"
    /\ encFunc = "ClientEncodeRequestBody"
    /\ encodeErr = "nil"
    /\ custom = <<Pair(DestinationHeader, <<"spoofed">>), Pair("x-webpa-device-name", <<"spoof-1">>)>>
    /\ httpRequest.Header["Content-Type"] # <<>>
    /\ httpRequest.Header[DestinationHeader] = <<"dev-missing">>

(***************************************************************************)
(* wrphttp response encoders and failed encodings: claims C15, C16         *)
(***************************************************************************)

SpanHeaderValues(ss, layout) == [i \in 1 .. Len(ss) |-> FormatSpan(ss[i], layout)]

\* C15: once ServerEncodeResponseBody or ServerEncodeResponseHeaders has started on a
\* Response, the response's headers hold one span header value for each of its spans,
\* and the headers sent with the first byte of the body already hold them.
C15_SpanHeadersBeforeBody ==
    rpc \notin {"idle", "ready"} =>
        /\ httpResponse.Header[SpanHeader] = SpanHeaderValues(wrpResponse.Spans, timeLayout)
        /\ wrpResponse.Spans # <<>> => httpResponse.Header[SpanHeader] # <<>>
        /\ httpResponse.Body # <<>> => httpResponse.Sent # <<>>
        /\ httpResponse.Sent # <<>> =>
              httpResponse.Sent[1][SpanHeader] = SpanHeaderValues(wrpResponse.Spans, timeLayout)

C15_Witness ==
    /\ rpc = "done"
    /\ respFunc = "ServerEncodeResponseHeaders"
    /\ Len(wrpResponse.Spans) = 2
    /\ httpResponse.Body = <<"pong">>
    /\ Len(httpResponse.Sent[1][SpanHeader]) = 2

\* C16: a failed encoding of the message leaves the outbound request of EncodeRequest
\* and ClientEncodeRequestBody as it was, and ServerEncodeResponseBody returns the error
\* with no body byte written, no header sent and no Content-Type set.
C16_FailedEncodeLeavesNoTrace ==
    /\ [][(encodeErr = "nil" /\ encodeErr' = "encodeError") => httpRequest' = httpRequest]_vars
    /\ [][(respErr = "nil" /\ respErr' = "encodeError") => httpResponse' = httpResponse]_vars
    /\ []((epc = "done" /\ encodeErr = "encodeError") =>
            /\ httpRequest.Body = <<>>
            /\ httpRequest.ContentLength = 0
            /\ httpRequest.Header \in PriorHeaders)
    /\ []((respFunc = "ServerEncodeResponseBody" /\ respErr = "encodeError") =>
            /\ rpc = "done"
            /\ httpResponse.Body = <<>>
            /\ httpResponse.Sent = <<>>
            /\ httpResponse.Header["Content-Type"] = <<>>)

C16_Witness ==
    /\ epc = "done"
    /\ encFunc = "ClientEncodeRequestBody"
    /\ encodeErr = "encodeError"
    /\ custom # <<>>
    /\ httpRequest.Header = NoHeaders
    /\ httpRequest.Body = <<>>

(***************************************************************************)
(* tracing.SpanError: claim C8                                             *)
(***************************************************************************)

\* C8: the value of NewSpanError(err, spans...) has err's message as Error(), err as
\* Err() and the given spans, in order, as Spans().
C8_Carrier ==
    spc = "done" =>
        /\ Error(spanError) = Error(err)
        /\ Err(spanError) = err
        /\ Spans(spanError) = spans

C8_Witness ==
    /\ spc = "done"
    /\ spans = <<"span-2", "span-1">>
    /\ Spans(spanError) = <<"span-2", "span-1">>
    /\ Error(spanError) = "closed"

\* C19: for any error e, also a SpanError that carries spans, the value of
\* NewSpanError(e, spans...) has an Err() that is no SpanError, and every span attached
\* to e is among the Spans() of the result.
C19_NoWrapChain ==
    spc = "done" =>
        /\ ~Err(spanError).isSpanError
        /\ \A i \in 1 .. Len(Spans(err)) :
              \E j \in 1 .. Len(Spans(spanError)) : Spans(spanError)[j] = Spans(err)[i]

====
